---- MODULE Spec2Model ----
(***************************************************************************)
(* nsh (src/main.c): a line-oriented shell.  loop() prints a prompt, reads *)
(* a line with get_cmd(), parses it with cmd_builder() into a FullCommand  *)
(* and runs it with execute_cmd(), which wires one child process per      *)
(* command through pipes and redirected descriptors.                       *)
(*                                                                         *)
(* A line is modelled at token granularity: a sequence of the blank-       *)
(* separated words strtok() yields, the last of which may be "&".  A       *)
(* pointer into the line buffer is modelled by the position of the token   *)
(* it points at, so two equal words at different places stay distinct.     *)
(***************************************************************************)
EXTENDS Integers, Sequences, FiniteSets

\* ---------------------------------------------------------------- bounds
MaxInput == 5        \* words (a final & apart) and newlines a session reads
ParseLen == 5        \* words of a line handed to cmd_builder in SpecParse
MaxFd == 8           \* highest descriptor number of a process
LongLen == 101       \* repetitions of a unit in a line of SpecLong

\* ------------------------------------------------------ program constants
TKS_BUFFER_SIZE == 128
MaxCmds == 16
MaxArgs == 101

\* the words a line is made of
Words == {"a", "quit", "|", "<", ">", ">>"}
\* the words that name a program execvp() finds
Programs == {"a", "tee"}
\* argv[1] of nsh when a backup file is given
BackupName == "backup"

\* ------------------------------------------------------------- pointers
\* a char* : the token at position pos of the line (pos >= 1), a string
\* literal of the program (pos = -1), or the null pointer
Ptr(p, s) == [pos |-> p, str |-> s]
NULL == [pos |-> 0, str |-> ""]
Lit(s) == [pos |-> -1, str |-> s]

\* arr[idx] = v on a C array of which the slots 0..Len(arr)-1 have been
\* written so far (every write of cmd_builder is at most one past them)
SetAt(arr, idx, v) ==
    IF idx < Len(arr) THEN [arr EXCEPT ![idx + 1] = v] ELSE Append(arr, v)

\* what execvp() reads of an args array: the slots before the first NULL
RECURSIVE Argv(_)
Argv(args) ==
    IF args = <<>> \/ Head(args) = NULL THEN <<>>
    ELSE <<Head(args)>> \o Argv(Tail(args))

\* ------------------------------------------------------------ get_cmd
\* all sequences over S of length at most n
RECURSIVE SeqsUpTo(_, _)
SeqsUpTo(S, n) ==
    IF n = 0 THEN {<<>>}
    ELSE LET shorter == SeqsUpTo(S, n - 1)
         IN  shorter \cup {Append(s, w) : s \in {t \in shorter : Len(t) = n - 1}, w \in S}

\* the lines of at most n words, with or without a final "&"
RawLines(n) ==
    LET body == SeqsUpTo(Words, n)
    IN  body \cup {Append(b, "&") : b \in body}

EndsInAmp(raw) == raw # <<>> /\ raw[Len(raw)] = "&"

\* get_cmd: the line without its newline; a final '&' sets bg and is cut off
\* (bg is never cleared).  On an empty line line[strlen(line)-1] is line[-1],
\* a byte outside the buffer: ub tells whether that byte is '&'.
\* get_cmd that leaves the & on the line
get_cmd_line_keep(raw) == raw

get_cmd_line(raw) == IF EndsInAmp(raw) THEN SubSeq(raw, 1, Len(raw) - 1) ELSE raw

get_cmd_bg(raw, old, ub) ==
    IF raw = <<>> THEN (IF ub THEN 1 ELSE old)
    ELSE IF EndsInAmp(raw) THEN 1 ELSE old

\* --------------------------------------------------------- cmd_builder
\* the locals of cmd_builder before the first token.  cmds[k] is the args
\* array of command k (written slots only); oob records a write beyond the
\* 16 commands, 101 argument slots or 128 token slots that were allocated.
BuilderInit ==
    [cmds |-> <<<<>>>>, toks |-> <<>>, pos |-> 0, num_cmd |-> 0, offset |-> 0,
     file_in |-> NULL, file_out |-> NULL, overwrite |-> -1, oob |-> FALSE]

SetArg(s, off, v) ==
    [s EXCEPT !.cmds[s.num_cmd + 1] = SetAt(@, off, v)]

\* one iteration of the while loop of cmd_builder on the token tok
BuilderStep(s, tok) ==
    LET s0 == [s EXCEPT !.toks = SetAt(@, s.pos, tok),
                        !.oob = @ \/ s.pos >= TKS_BUFFER_SIZE
                                  \/ s.num_cmd >= MaxCmds \/ s.offset >= MaxArgs]
        s1 == SetArg(s0, s.offset, tok)
        prev == IF s.pos > 0 THEN s1.toks[s.pos].str ELSE ""
    IN  IF tok.str = "|"
        THEN [SetArg(s1, s.offset, NULL) EXCEPT
                 !.cmds = Append(@, <<>>), !.offset = 0,
                 !.num_cmd = @ + 1, !.pos = @ + 1]
        ELSE IF prev = ">"
        THEN [SetArg(s1, s.offset - 1, NULL) EXCEPT
                 !.file_out = tok, !.overwrite = 1, !.pos = @ + 1]
        ELSE IF prev = "<"
        THEN [SetArg(s1, s.offset - 1, NULL) EXCEPT
                 !.file_in = tok, !.pos = @ + 1]
        ELSE IF prev = ">>"
        THEN [SetArg(s1, s.offset - 1, NULL) EXCEPT
                 !.file_out = tok, !.overwrite = 0, !.pos = @ + 1]
        ELSE [s1 EXCEPT !.pos = @ + 1, !.offset = @ + 1]

\* the iterations of the while loop for the tokens line[from..to], in
\* order.  The range is halved, and the first half is computed before the
\* second is begun (the test on pos, which is never negative, makes TLC
\* do so), so that long lines need no deep recursion.
RECURSIVE BuilderRange(_, _, _, _)
BuilderRange(s, line, from, to) ==
    IF from > to THEN s
    ELSE IF from = to THEN BuilderStep(s, Ptr(from, line[from]))
    ELSE LET mid == (from + to) \div 2
             half == BuilderRange(s, line, from, mid)
         IN  IF half.pos >= 0 THEN BuilderRange(half, line, mid + 1, to) ELSE half

\* the while loop over the tokens line[from..Len(line)]
BuilderLoop(s, line, from) == BuilderRange(s, line, from, Len(line))

\* the end of cmd_builder with num_cmds one short
BuilderFinishOffByOne(s, bk) ==
    LET t == SetArg(s, s.offset, NULL)
    IN  [num_cmds |-> t.num_cmd, cmds |-> t.cmds,
         file_in |-> t.file_in, file_out |-> t.file_out,
         overwrite |-> t.overwrite, oob |-> t.oob]

\* the end of cmd_builder with a tee command that lacks -a
BuilderFinishTeeNoAppend(s, bk) ==
    LET t == SetArg(s, s.offset, NULL)
        u == IF bk
             THEN [t EXCEPT !.cmds = Append(@, <<Lit("tee"), Lit(BackupName), NULL>>),
                            !.num_cmd = @ + 1]
             ELSE t
    IN  [num_cmds |-> u.num_cmd + 1, cmds |-> u.cmds,
         file_in |-> u.file_in, file_out |-> u.file_out,
         overwrite |-> u.overwrite, oob |-> u.oob]

\* after the loop: terminate the last command, add the tee command when a
\* backup file was given, and fill the FullCommand
BuilderFinish(s, bk) ==
    LET t == [SetArg(s, s.offset, NULL) EXCEPT
                 !.oob = @ \/ s.num_cmd >= MaxCmds \/ s.offset >= MaxArgs]
        u == IF bk
             THEN [t EXCEPT !.cmds = Append(@, <<Lit("tee"), Lit("-a"), Lit(BackupName), NULL>>),
                            !.num_cmd = @ + 1,
                            !.oob = @ \/ t.num_cmd + 1 >= MaxCmds]
             ELSE t
    IN  [num_cmds |-> u.num_cmd + 1, cmds |-> u.cmds,
         file_in |-> u.file_in, file_out |-> u.file_out,
         overwrite |-> u.overwrite, oob |-> u.oob]

cmd_builder(line, bk) == BuilderFinish(BuilderLoop(BuilderInit, line, 1), bk)

\* the FullCommand no line has been parsed into yet
NoCmd ==
    [num_cmds |-> 0, cmds |-> <<>>, file_in |-> NULL, file_out |-> NULL,
     overwrite |-> -1, oob |-> FALSE]

\* ------------------------------------------------- descriptor tables
\* an open file description; two descriptors are the same open file when
\* they hold the same description
Closed == [kind |-> "closed", id |-> 0, name |-> "", mode |-> ""]
Std(n) == [kind |-> "std", id |-> 0, name |-> n, mode |-> ""]
File(k, n, m) == [kind |-> "file", id |-> k, name |-> n, mode |-> m]
PipeEnd(k, m) == [kind |-> "pipe", id |-> k, name |-> "", mode |-> m]

Fds == 0..MaxFd
Valid(t, f) == f \in Fds /\ t[f] # Closed
FreeFds(t) == {f \in Fds : t[f] = Closed}
LowestFree(t) ==
    IF FreeFds(t) = {} THEN -1
    ELSE CHOOSE f \in FreeFds(t) : \A g \in FreeFds(t) : f <= g

\* The descriptor calls of execute_cmd act on k = [t, n]: the descriptor
\* table of the interpreter and the number of descriptor calls made so far
\* by this call of execute_cmd; ret is the value the call returns.
SysDup(k, old) ==
    LET f == IF Valid(k.t, old) THEN LowestFree(k.t) ELSE -1
    IN  [t |-> IF f >= 0 THEN [k.t EXCEPT ![f] = k.t[old]] ELSE k.t,
         n |-> k.n + 1, ret |-> f]

SysDup2(k, old, new) ==
    [t |-> IF Valid(k.t, old) /\ new \in Fds THEN [k.t EXCEPT ![new] = k.t[old]] ELSE k.t,
     n |-> k.n + 1, ret |-> IF Valid(k.t, old) /\ new \in Fds THEN new ELSE -1]

SysClose(k, f) ==
    [t |-> IF Valid(k.t, f) THEN [k.t EXCEPT ![f] = Closed] ELSE k.t,
     n |-> k.n + 1, ret |-> IF Valid(k.t, f) THEN 0 ELSE -1]

\* open() of a file that can be opened (ok) or not
SysOpen(k, obj, ok) ==
    LET f == IF ok THEN LowestFree(k.t) ELSE -1
    IN  [t |-> IF f >= 0 THEN [k.t EXCEPT ![f] = obj] ELSE k.t,
         n |-> k.n + 1, ret |-> f]

\* 1 when the call k failed (on close(): the descriptor was not open)
Ebadf(k) == IF k.ret < 0 THEN 1 ELSE 0

\* pipe(fds) with the two ends taken for each other
SysPipeSwapped(k, id) ==
    LET r == LowestFree(k.t)
        t1 == IF r >= 0 THEN [k.t EXCEPT ![r] = PipeEnd(id, "w")] ELSE k.t
        w == IF r >= 0 THEN LowestFree(t1) ELSE -1
    IN  IF w >= 0
        THEN [t |-> [t1 EXCEPT ![w] = PipeEnd(id, "r")], n |-> k.n + 1, rd |-> r, wr |-> w]
        ELSE [t |-> k.t, n |-> k.n + 1, rd |-> -1, wr |-> -1]

\* pipe(fds): rd = fds[READ], wr = fds[WRITE]
SysPipe(k, id) ==
    LET r == LowestFree(k.t)
        t1 == IF r >= 0 THEN [k.t EXCEPT ![r] = PipeEnd(id, "r")] ELSE k.t
        w == IF r >= 0 THEN LowestFree(t1) ELSE -1
    IN  IF w >= 0
        THEN [t |-> [t1 EXCEPT ![w] = PipeEnd(id, "w")], n |-> k.n + 1, rd |-> r, wr |-> w]
        ELSE [t |-> k.t, n |-> k.n + 1, rd |-> -1, wr |-> -1]

\* --------------------------------------------------------------- state
VARIABLES
    pc,       \* where the interpreter is: "prompt", "exec", "loop", "restore",
              \* "wait", or ended: "done" (main returned), "exited", "crashed"
    bg,       \* global bg
    backup,   \* global backup: a backup file was given on the command line
    line,     \* in: the line get_cmd returned last
    cmd,      \* the FullCommand of the line being executed
    status,   \* status of loop(): what execute_cmd returned last
    fdt,      \* the descriptor table of the interpreter process
    tin, tout, fd_in, fd_out, i, pid,   \* locals of execute_cmd
    procs,    \* the processes forked so far, by pid
    nextid,   \* identity of the next open file description
    nlines,   \* lines read so far
    nread,    \* words and newlines read so far
    amp,      \* the line read last ended in '&'
    nsys,     \* descriptor calls made by the current call of execute_cmd
    nbad,     \* close() calls of the current call of execute_cmd that failed
              \* because the descriptor was not open (EBADF)
    zombies   \* the processes that had exited and were not waited for when
              \* the line read last was read

vars == <<pc, bg, backup, line, cmd, status, fdt, tin, tout, fd_in, fd_out, i, pid,
          procs, nextid, nlines, nread, amp, nsys, nbad, zombies>>

locals == <<tin, tout, fd_in, fd_out, i, pid>>

\* main(): descriptors 0, 1, 2 are inherited and the backup file, when one
\* is given, is opened on descriptor 3 before loop() is entered
StartFds(bk) ==
    [f \in Fds |-> IF f = 0 THEN Std("stdin")
                   ELSE IF f = 1 THEN Std("stdout")
                   ELSE IF f = 2 THEN Std("stderr")
                   ELSE IF f = 3 /\ bk THEN File(0, BackupName, "append")
                   ELSE Closed]

Init ==
    /\ pc = "prompt"
    /\ bg = 0
    /\ backup \in BOOLEAN
    /\ line = <<>>
    /\ cmd = NoCmd
    /\ status = -1
    /\ fdt = StartFds(backup)
    /\ tin = -1 /\ tout = -1 /\ fd_in = -1 /\ fd_out = -1 /\ i = 0 /\ pid = -1
    /\ procs = <<>>
    /\ nextid = 1
    /\ nlines = 0
    /\ nread = 0
    /\ amp = FALSE
    /\ nsys = 0
    /\ nbad = 0
    /\ zombies = {}

\* loop(), lines 98-107: print the prompt, read a line, parse it (the line is
\* also written to the backup descriptor, which changes no descriptor)
GetLine(raw, ub) ==
    /\ raw # <<>> => ~ub
    /\ pc' = "exec"
    /\ bg' = get_cmd_bg(raw, bg, ub)
    /\ line' = get_cmd_line(raw)
    /\ cmd' = cmd_builder(get_cmd_line(raw), backup)
    /\ amp' = EndsInAmp(raw)
    /\ nlines' = nlines + 1
    /\ nread' = nread + Len(get_cmd_line(raw)) + 1
    /\ nsys' = 0
    /\ nbad' = 0
    /\ zombies' = {p \in DOMAIN procs : procs[p].status = "exited"}
    /\ UNCHANGED <<backup, status, fdt, locals, procs, nextid>>

\* the session reads any line that its input still has room for
ReadLine ==
    /\ pc = "prompt"
    /\ nread < MaxInput
    /\ \E raw \in RawLines(MaxInput - nread - 1), ub \in BOOLEAN : GetLine(raw, ub)

\* strcmp(cmd->cmds->args[0], "quit") of execute_cmd.  When args[0] is NULL
\* (the line has no first word) strcmp reads through the null pointer, which
\* kills the interpreter (SIGSEGV).
StrcmpQuitInverted(first) ==
    IF first = NULL THEN "crash"
    ELSE IF first.str = "quit" THEN "differ" ELSE "equal"

StrcmpQuit(first) ==
    IF first = NULL THEN "crash"
    ELSE IF first.str = "quit" THEN "equal" ELSE "differ"

\* the outcomes of an open(): only a file that is named can fail to open
OpenOutcomes(f) == IF f = NULL THEN {TRUE} ELSE BOOLEAN

\* loop(), lines 110-115 after execute_cmd returned st: the command is
\* freed, the locals of execute_cmd are gone
Return(st) ==
    /\ status' = st
    /\ cmd' = NoCmd
    /\ tin' = -1 /\ tout' = -1 /\ fd_in' = -1 /\ fd_out' = -1 /\ i' = 0 /\ pid' = -1

\* execute_cmd, lines 238-259: the quit test, the saved copies of stdin and
\* stdout, the input file.  On quit loop() ends and main() closes the backup
\* descriptor and returns.
ExecBeginAs(cmp, ok) ==
    /\ ok \in OpenOutcomes(cmd.file_in)
    /\ cmp # "differ" => ok
    /\ IF cmp = "crash"
       THEN /\ pc' = "crashed"
            /\ UNCHANGED <<status, cmd, fdt, locals, nextid, nsys>>
       ELSE IF cmp = "equal"
       THEN /\ pc' = "done"
            /\ Return(0)
            /\ fdt' = IF backup THEN [fdt EXCEPT ![3] = Closed] ELSE fdt
            /\ UNCHANGED <<nextid, nsys>>
       ELSE LET k0 == [t |-> fdt, n |-> nsys]
                k1 == SysDup(k0, 0)
                k2 == SysDup(k1, 1)
                k3 == IF cmd.file_in # NULL
                      THEN SysOpen(k2, File(nextid, cmd.file_in.str, "rd"), ok)
                      ELSE SysDup(k2, k1.ret)
            IN  /\ tin' = k1.ret
                /\ tout' = k2.ret
                /\ fd_in' = k3.ret
                /\ fdt' = k3.t
                /\ nsys' = k3.n
                /\ nextid' = IF cmd.file_in # NULL /\ k3.ret >= 0 THEN nextid + 1 ELSE nextid
                /\ pc' = IF cmd.file_in # NULL /\ k3.ret < 0 THEN "exited" ELSE "loop"
                /\ i' = 0
                /\ UNCHANGED <<status, cmd, fd_out, pid>>
    /\ UNCHANGED <<bg, backup, line, procs, nlines, nread, amp, nbad, zombies>>

\* the child of fork(): it has a copy of the descriptor table and runs
\* execvp(args[0], args)
Child(stage, args, t) ==
    [line |-> nlines, stage |-> stage, last |-> stage = cmd.num_cmds - 1,
     argv |-> Argv(args), fds |-> t, status |-> "running", how |-> ""]

\* execute_cmd, lines 266-313: one iteration of the for loop
StageStepAs(ok) ==
    /\ LET last == i = cmd.num_cmds - 1
           k0 == [t |-> fdt, n |-> nsys]
           k1 == SysDup2(k0, fd_in, 0)
           k2 == SysClose(k1, fd_in)
           mode == IF cmd.overwrite # 0 THEN "trunc" ELSE "append"
           opn == SysOpen(k2, File(nextid, cmd.file_out.str, mode), ok)
           dpo == SysDup(k2, tout)
           pip == SysPipe(k2, nextid)
           k3 == IF last THEN (IF cmd.file_out # NULL THEN opn ELSE dpo)
                 ELSE [t |-> pip.t, n |-> pip.n, ret |-> pip.wr]
           k4 == SysDup2(k3, k3.ret, 1)
           k5 == SysClose(k4, k3.ret)
           made == (last /\ cmd.file_out # NULL /\ opn.ret >= 0) \/ (~last /\ pip.wr >= 0)
       IN  /\ ok \in (IF last THEN OpenOutcomes(cmd.file_out) ELSE {TRUE})
           /\ nextid' = IF made THEN nextid + 1 ELSE nextid
           /\ fd_out' = k3.ret
           /\ fd_in' = IF last THEN fd_in ELSE pip.rd
           /\ IF last /\ cmd.file_out # NULL /\ fd_in < 0
              THEN /\ pc' = "exited"
                   /\ fdt' = k3.t
                   /\ nsys' = k3.n
                   /\ nbad' = nbad + Ebadf(k2)
                   /\ UNCHANGED <<procs, pid, i>>
              ELSE /\ fdt' = k5.t
                   /\ nsys' = k5.n
                   /\ nbad' = nbad + Ebadf(k2) + Ebadf(k5)
                   /\ procs' = Append(procs, Child(i, cmd.cmds[i + 1], k5.t))
                   /\ pid' = Len(procs) + 1
                   /\ i' = i + 1
                   /\ pc' = IF i + 1 < cmd.num_cmds THEN "loop" ELSE "restore"
    /\ UNCHANGED <<bg, backup, line, cmd, status, tin, tout, nlines, nread, amp, zombies>>

\* the end of execute_cmd with dup2(tout, 1) left out
ExecEndNoRestore ==
    /\ pc = "restore"
    /\ LET k0 == [t |-> fdt, n |-> nsys]
           k1 == SysDup2(k0, tin, 0)
           k3 == SysClose(k1, tin)
           k4 == SysClose(k3, tout)
       IN  /\ fdt' = k4.t
           /\ nsys' = k4.n
           /\ nbad' = nbad + Ebadf(k3) + Ebadf(k4)
    /\ IF bg = 0
       THEN /\ pc' = "wait"
            /\ UNCHANGED <<status, cmd, locals>>
       ELSE /\ pc' = "prompt"
            /\ Return(1)
    /\ UNCHANGED <<bg, backup, line, procs, nextid, nlines, nread, amp, zombies>>

\* execute_cmd, lines 315-325: stdin and stdout are restored; a foreground
\* command waits for the last child, a background one returns at once
ExecEnd ==
    /\ pc = "restore"
    /\ LET k0 == [t |-> fdt, n |-> nsys]
           k1 == SysDup2(k0, tin, 0)
           k2 == SysDup2(k1, tout, 1)
           k3 == SysClose(k2, tin)
           k4 == SysClose(k3, tout)
       IN  /\ fdt' = k4.t
           /\ nsys' = k4.n
           /\ nbad' = nbad + Ebadf(k3) + Ebadf(k4)
    /\ IF bg = 0
       THEN /\ pc' = "wait"
            /\ UNCHANGED <<status, cmd, locals>>
       ELSE /\ pc' = "prompt"
            /\ Return(1)
    /\ UNCHANGED <<bg, backup, line, procs, nextid, nlines, nread, amp, zombies>>

\* waitpid(pid, &status, 0) returns once the child forked last has exited
Wait ==
    /\ pc = "wait"
    /\ procs[pid].status = "exited"
    /\ procs' = [procs EXCEPT ![pid].status = "reaped"]
    /\ pc' = "prompt"
    /\ Return(1)
    /\ UNCHANGED <<bg, backup, line, fdt, nextid, nlines, nread, amp, nsys, nbad, zombies>>

\* a child that goes on as if the program had run when execvp fails
ChildHowNoExit(c) ==
    IF c.argv = <<>> THEN "crash" ELSE "finished"

\* how a child ends: execvp finds no program of that name and the child
\* exits with EXIT_FAILURE, or the program runs and ends; execvp(NULL, ...)
\* reads through the null pointer, which kills the child
ChildHow(c) ==
    IF c.argv = <<>> THEN "crash"
    ELSE IF c.argv[1].str \in Programs THEN "finished" ELSE "execfail"

\* lines 306-312 in the child, and the program it loads, up to its end
ChildEndOf(p) ==
    /\ procs[p].status = "running"
    /\ procs' = [procs EXCEPT ![p].status = "exited", ![p].how = ChildHow(procs[p])]
    /\ UNCHANGED <<pc, bg, backup, line, cmd, status, fdt, locals, nextid,
                   nlines, nread, amp, nsys, nbad, zombies>>

ExecBegin ==
    /\ pc = "exec"
    /\ \E ok \in BOOLEAN : ExecBeginAs(StrcmpQuit(cmd.cmds[1][1]), ok)

StageStep ==
    /\ pc = "loop"
    /\ \E ok \in BOOLEAN : StageStepAs(ok)

ChildEnd ==
    \E p \in DOMAIN procs : ChildEndOf(p)

Next ==
    \/ ReadLine
    \/ ExecBegin
    \/ StageStep
    \/ ExecEnd
    \/ Wait
    \/ ChildEnd

Spec == Init /\ [][Next]_vars

\* get_cmd and cmd_builder alone, on the first line of a session
ParseLine ==
    /\ pc = "prompt"
    /\ nlines = 0
    /\ \E raw \in RawLines(ParseLen), ub \in BOOLEAN : GetLine(raw, ub)

NextParse == ParseLine

SpecParse == Init /\ [][NextParse]_vars

\* get_cmd and cmd_builder on a long first line: one unit of one or two
\* words repeated up to LongLen times (getline puts no limit on the length
\* of a line).  Writes beyond the allocated arrays are undefined behaviour;
\* cmd_builder records them in oob and this specification does not go on to
\* execute the command.
RECURSIVE Rep(_, _)
Rep(unit, n) == IF n = 0 THEN <<>> ELSE Rep(unit, n - 1) \o unit

LongLines ==
    {Rep(unit, n) : unit \in {<<"a">>, <<"a", "|">>, <<"|">>}, n \in 0..LongLen}

LongLine ==
    /\ pc = "prompt"
    /\ nlines = 0
    /\ \E raw \in LongLines : GetLine(raw, FALSE)

NextLong == LongLine

SpecLong == Init /\ [][NextLong]_vars

\* ------------------------------------------------------------ properties
RedirOps == {"<", ">", ">>"}

\* the processes forked for the line read last
Mine == {p \in DOMAIN procs : procs[p].line = nlines}

\* the FullCommand of the line read last (cmd itself is freed on return)
Parsed == cmd_builder(line, backup)

\* the first word of the first command of the line read last is quit
QuitFirst == Parsed.cmds[1][1].str = "quit"

\* the interpreter is inside the for loop of execute_cmd or past it
Executing == pc \in {"loop", "restore", "wait"}

\* the line has an empty pipeline stage: | first, last, or twice in a row
BadPipe(l) ==
    /\ l # <<>>
    /\ \/ l[1] = "|"
       \/ l[Len(l)] = "|"
       \/ \E k \in 1..(Len(l) - 1) : l[k] = "|" /\ l[k + 1] = "|"

\* the line ends in a redirection operator
Dangling(l) == l # <<>> /\ l[Len(l)] \in RedirOps

\* C1: while a pipeline runs, the children forked for it so far are one per
\* stage, in stage order; stage 0 reads the input file or the original
\* stdin, stage k > 0 reads the pipe stage k-1 writes, every stage but the
\* last writes a pipe no earlier process holds, and the last stage writes
\* the output file, when it could be opened, or the original stdout.
C1_Wiring ==
    Executing =>
        LET n == cmd.num_cmds
            base == Len(procs) - i
            P(k) == procs[base + k + 1]
        IN  /\ base >= 0
            /\ Mine = (base + 1)..Len(procs)
            /\ pc # "loop" => i = n
            /\ \A k \in 0..(i - 1) :
                /\ P(k).stage = k
                /\ k = 0 =>
                     IF cmd.file_in # NULL
                     THEN /\ P(k).fds[0].kind = "file"
                          /\ P(k).fds[0].name = cmd.file_in.str
                          /\ P(k).fds[0].mode = "rd"
                     ELSE P(k).fds[0] = Std("stdin")
                /\ k > 0 =>
                     /\ P(k).fds[0].kind = "pipe"
                     /\ P(k).fds[0].mode = "r"
                     /\ P(k - 1).fds[1] = PipeEnd(P(k).fds[0].id, "w")
                /\ k < n - 1 =>
                     /\ P(k).fds[1].kind = "pipe"
                     /\ P(k).fds[1].mode = "w"
                     /\ \A q \in 1..(base + k) : \A f \in Fds :
                            procs[q].fds[f].kind = "pipe" => procs[q].fds[f].id # P(k).fds[1].id
                /\ (k = n - 1 /\ fd_out >= 0) =>
                     IF cmd.file_out # NULL
                     THEN /\ P(k).fds[1].kind = "file"
                          /\ P(k).fds[1].name = cmd.file_out.str
                          /\ P(k).fds[1].mode = (IF cmd.overwrite = 1 THEN "trunc" ELSE "append")
                     ELSE P(k).fds[1] = Std("stdout")

\* a pipeline of three stages with an output file, declared in the first
\* stage, has been started completely
C1_Witness ==
    /\ pc = "restore"
    /\ cmd.num_cmds >= 3
    /\ cmd.file_out # NULL /\ cmd.file_out.pos = 3
    /\ fd_out >= 0

\* C2: at a prompt after a line that has words and did not end in &, the
\* process of the last stage of that line has exited.
C2_ForegroundWaits ==
    (pc = "prompt" /\ nlines > 0 /\ ~amp /\ line # <<>>) =>
        \A p \in Mine : procs[p].last => procs[p].status \in {"exited", "reaped"}

\* C3: for a line that ended in &, no stage has & among its arguments (a
\* line of plain words is one stage of exactly those words), execute_cmd
\* never waits for a child and reaps none, and when it returns every stage
\* of the line has been started.
C3_Background ==
    amp =>
        /\ pc # "wait"
        /\ \A p \in Mine :
            /\ procs[p].status # "reaped"
            /\ \A k \in DOMAIN procs[p].argv :
                 /\ procs[p].argv[k].str # "&"
                 /\ procs[p].argv[k].pos <= Len(line)
            /\ (\A k \in DOMAIN line : line[k] \notin RedirOps \cup {"|"}) =>
                 (procs[p].stage = 0 =>
                    procs[p].argv = [k \in DOMAIN line |-> Ptr(k, line[k])])
        /\ pc = "restore" => Cardinality(Mine) = cmd.num_cmds
        /\ pc = "prompt" =>
             \E p \in Mine : procs[p].last /\ Cardinality(Mine) = procs[p].stage + 1

\* "a a &" has returned to the prompt while its process still runs
C3_Witness ==
    /\ amp /\ pc = "prompt" /\ status = 1
    /\ line = <<"a", "a">>
    /\ \E p \in Mine : procs[p].status = "running" /\ Len(procs[p].argv) = 2

\* C4: once execute_cmd has been called on a line whose first program name
\* is quit, it has made no descriptor call and forked no process, it has
\* returned 0, the descriptors 0, 1 and 2 are as at startup, and the
\* interpreter has ended (it is at no prompt and reads no further line).
C4_Quit ==
    (nlines > 0 /\ QuitFirst /\ pc # "exec") =>
        /\ pc = "done"
        /\ status = 0
        /\ nsys = 0
        /\ Mine = {}
        /\ \A f \in 0..2 : fdt[f] = StartFds(backup)[f]

\* quit with further words on the line, backup active
C4_Witness ==
    /\ pc = "done" /\ backup /\ QuitFirst
    /\ Len(line) >= 3 /\ line[2] = "|"

\* C5: a line with an empty pipeline stage is not executed: no process is
\* forked for it, and the interpreter is about to run it or back at a prompt.
C5_PipeSyntax ==
    (nlines > 0 /\ BadPipe(line)) => (Mine = {} /\ pc \in {"exec", "prompt"})

\* C6: a line ending in a redirection operator is discarded: no process is
\* forked for it, the interpreter goes on, and no program gets the operator
\* as an argument.
C6_DanglingRedir ==
    (nlines > 0 /\ Dangling(line)) =>
        /\ Mine = {}
        /\ pc \in {"exec", "prompt"}
        /\ \A p \in Mine : \A k \in DOMAIN procs[p].argv : procs[p].argv[k].pos # Len(line)

\* C7: a blank line has no stage with a word of its own, and executing it
\* does nothing: no process, no descriptor call, and the interpreter goes on
\* to the next prompt.
C7_BlankLine ==
    (nlines > 0 /\ line = <<>> /\ ~amp) =>
        /\ pc = "exec" => \A k \in 1..(cmd.num_cmds - (IF backup THEN 1 ELSE 0)) :
                              Argv(cmd.cmds[k]) = <<>>
        /\ Mine = {}
        /\ nsys = 0
        /\ fdt = StartFds(backup)
        /\ pc \in {"exec", "prompt"}

\* the open of the input file or of the output file of the line has failed
OpenFailed ==
    \/ pc = "exited"
    \/ pc \in {"restore", "wait"} /\ cmd.file_out # NULL /\ fd_out < 0

\* C8: when an open of a redirection file has failed, no process of that
\* pipeline has been started.
C8_AbortBeforeSpawn == OpenFailed => Mine = {}

\* C9: the interpreter is never ended by exit() after a failed open, never
\* killed on a line with malformed syntax, and its loop ends only on quit.
C9_ErrorsAreLocal ==
    /\ pc # "exited"
    /\ pc = "crashed" => ~(BadPipe(line) \/ Dangling(line))
    /\ pc = "done" => QuitFirst

\* a later redirection of one of the operators dirs replaces this one
Later(k, dirs) == \E m \in (k + 1)..(Len(line) - 1) : line[m] \in dirs

\* C10: for every redirection operator at position k of the line with a
\* token f after it, cmd_builder has set the input file (for <) or the output
\* file and its mode (> truncates, >> appends) to f when it has consumed f,
\* the FullCommand keeps f unless a later redirection replaces it, and no
\* argument vector holds the operator or f; "a < a > a" is the one stage
\* [a] with both files and truncate mode.
C10_Redirection ==
    pc = "exec" =>
        /\ \A k \in 1..(Len(line) - 1) :
            line[k] \in RedirOps =>
                LET f == Ptr(k + 1, line[k + 1])
                    sofar == BuilderLoop(BuilderInit, SubSeq(line, 1, k + 1), 1)
                IN  /\ line[k] = "<" => sofar.file_in = f
                    /\ line[k] = ">" => (sofar.file_out = f /\ sofar.overwrite = 1)
                    /\ line[k] = ">>" => (sofar.file_out = f /\ sofar.overwrite = 0)
                    /\ (line[k] = "<" /\ ~Later(k, {"<"})) => cmd.file_in = f
                    /\ (line[k] = ">" /\ ~Later(k, {">", ">>"})) =>
                           (cmd.file_out = f /\ cmd.overwrite = 1)
                    /\ (line[k] = ">>" /\ ~Later(k, {">", ">>"})) =>
                           (cmd.file_out = f /\ cmd.overwrite = 0)
                    /\ \A c \in DOMAIN cmd.cmds : \A j \in DOMAIN Argv(cmd.cmds[c]) :
                           Argv(cmd.cmds[c])[j].pos \notin {k, k + 1}
        /\ (line = <<"a", "<", "a", ">", "a">> /\ ~backup) =>
               /\ cmd.num_cmds = 1
               /\ Argv(cmd.cmds[1]) = <<Ptr(1, "a")>>
               /\ cmd.file_in = Ptr(3, "a")
               /\ cmd.file_out = Ptr(5, "a")
               /\ cmd.overwrite = 1

\* ------------------------------------------------ arguments and stages
\* the number of | among the first n words of the line read last
RECURSIVE PipesBefore(_)
PipesBefore(n) ==
    IF n = 0 THEN 0
    ELSE PipesBefore(n - 1) + (IF line[n] = "|" THEN 1 ELSE 0)

\* the word at position k is an argument: not |, not a redirection operator
\* and not the word after one
Plain(k) ==
    /\ line[k] \notin RedirOps \cup {"|"}
    /\ ~(k > 1 /\ line[k - 1] \in RedirOps)

\* the arguments of stage st (0, 1, ...) of the line, in line order
PlainOf(st) ==
    SelectSeq([k \in 1..Len(line) |-> Ptr(k, line[k])],
              LAMBDA x : Plain(x.pos) /\ PipesBefore(x.pos) = st)

\* C11: in the FullCommand of a line, the argument vector of every stage
\* holds the arguments of that stage, all of them and in line order.
C11_ArgsKept ==
    pc = "exec" =>
        \A st \in 0..PipesBefore(Len(line)) :
            SelectSeq(Argv(cmd.cmds[st + 1]), LAMBDA x : x.pos >= 1 /\ Plain(x.pos))
                = PlainOf(st)

\* C12: without backup a line with k | operators is parsed into k + 1
\* commands; "a | a | a" is the three stages [a], [a], [a] and no file.
C12_StageCount ==
    (pc = "exec" /\ ~backup) =>
        /\ cmd.num_cmds = PipesBefore(Len(line)) + 1
        /\ Len(cmd.cmds) = cmd.num_cmds
        /\ line = <<"a", "|", "a", "|", "a">> =>
             /\ Argv(cmd.cmds[1]) = <<Ptr(1, "a")>>
             /\ Argv(cmd.cmds[2]) = <<Ptr(3, "a")>>
             /\ Argv(cmd.cmds[3]) = <<Ptr(5, "a")>>
             /\ cmd.file_in = NULL /\ cmd.file_out = NULL

\* "a | a | a" has been parsed, backup inactive
C12_Witness ==
    pc = "exec" /\ ~backup /\ line = <<"a", "|", "a", "|", "a">> /\ cmd.num_cmds = 3


\* C13: whenever execute_cmd has returned to loop() -- after quit, after a
\* background command, after the wait of a foreground command -- and also
\* while it waits, descriptors 0 and 1 of the interpreter are the open files
\* they were before the call.
C13_StdRestored ==
    pc \in {"prompt", "wait", "done"} =>
        /\ fdt[0] = Std("stdin")
        /\ fdt[1] = Std("stdout")

\* execute_cmd returned 1 for a pipeline whose last stage wrote a file and
\* whose first stage read one
C13_Witness ==
    /\ pc = "prompt"
    /\ status = 1
    /\ \E p \in Mine : procs[p].fds[1].kind = "file"
    /\ \E p \in Mine : procs[p].fds[0].kind = "file"

\* C14: a process that had exited without being waited for when one line
\* was read has been waited for when the next line is read (a prompt was
\* printed in between, and the exited children are collected before it).
C14_Reaped ==
    [][(pc = "prompt" /\ pc' = "exec") =>
           \A p \in zombies : procs[p].status = "reaped"]_vars

\* the process p was forked for a stage whose program cannot be loaded:
\* execvp returns -1
ExecFails(p) == procs[p].argv # <<>> /\ procs[p].argv[1].str \notin Programs

\* C15: a child whose execvp returns -1 ends by exit(EXIT_FAILURE) and in no
\* other way; it forks nothing, so the processes of a line are never more
\* than its stages; while a stage that failed to load exists the interpreter
\* is alive, and once the loop is over every stage of the line has its
\* process, the stages after the failed one included; the other stages run to
\* their own end.
C15_ExecFailure ==
    /\ \A p \in DOMAIN procs :
           /\ (ExecFails(p) /\ procs[p].status # "running") => procs[p].how = "execfail"
           /\ (~ExecFails(p) /\ procs[p].argv # <<>> /\ procs[p].status # "running")
                  => procs[p].how = "finished"
    /\ Executing => Cardinality(Mine) = i
    /\ (\E p \in Mine : ExecFails(p)) =>
           /\ pc \in {"loop", "restore", "wait", "prompt"}
           /\ pc # "loop" => \A k \in 0..(Parsed.num_cmds - 1) :
                                 \E q \in Mine : procs[q].stage = k

\* the first stage failed to load and has exited, a later stage ran its
\* program, and the interpreter is back at the prompt
C15_Witness ==
    /\ pc = "prompt"
    /\ \E p, q \in Mine :
           /\ procs[p].stage < procs[q].stage
           /\ ExecFails(p) /\ procs[p].how = "execfail"
           /\ procs[q].how = "finished"

\* C16: cmd_builder writes no command beyond the 16 that were allocated, no
\* argument slot beyond the 101 of a command and no token beyond the 128 of
\* toks: a line that needs more is not built into a command.
C16_WithinCapacity ==
    pc = "exec" => ~cmd.oob

\* C17: with a backup file the command built for a line has one stage more
\* than the line has (one stage per | and one), the added stage is last and
\* is tee -a <backup file>; when the stages have been forked the stage
\* before tee writes the pipe tee reads and the output file of the line,
\* when it was opened, is the standard output of tee.  Without a backup file
\* no stage is added.
C17_Tee ==
    /\ (pc = "exec" /\ backup) =>
           /\ cmd.num_cmds = PipesBefore(Len(line)) + 2
           /\ Len(cmd.cmds) = cmd.num_cmds
           /\ Argv(cmd.cmds[cmd.num_cmds]) = <<Lit("tee"), Lit("-a"), Lit(BackupName)>>
           /\ \A k \in 1..(cmd.num_cmds - 1) :
                  \A x \in 1..Len(cmd.cmds[k]) : cmd.cmds[k][x].pos >= 0
    /\ (pc = "exec" /\ ~backup) =>
           /\ cmd.num_cmds = PipesBefore(Len(line)) + 1
           /\ \A k \in 1..cmd.num_cmds :
                  \A x \in 1..Len(cmd.cmds[k]) : cmd.cmds[k][x].pos >= 0
    /\ (pc \in {"restore", "wait"} /\ backup) =>
           LET tee == procs[Len(procs)]
               prev == procs[Len(procs) - 1]
           IN  /\ Len(procs) >= 2
               /\ tee.line = nlines /\ prev.line = nlines
               /\ tee.stage = cmd.num_cmds - 1 /\ prev.stage = cmd.num_cmds - 2
               /\ tee.argv = <<Lit("tee"), Lit("-a"), Lit(BackupName)>>
               /\ tee.fds[0].kind = "pipe" /\ tee.fds[0].mode = "r"
               /\ prev.fds[1] = PipeEnd(tee.fds[0].id, "w")
               /\ (cmd.file_out # NULL /\ fd_out >= 0) =>
                      /\ tee.fds[1].kind = "file"
                      /\ tee.fds[1].name = cmd.file_out.str
                      /\ \A p \in Mine \ {Len(procs)} : procs[p].fds[1].kind # "file"

\* a line with a pipe and an output file was run with a backup file: three
\* stages were forked and the file was opened
C17_Witness ==
    /\ backup
    /\ pc = "restore"
    /\ PipesBefore(Len(line)) = 1
    /\ cmd.file_out # NULL
    /\ fd_out >= 0
    /\ Cardinality(Mine) = 3

\* C18: execute_cmd issues no close() on a descriptor that is not open; when
\* it has returned the interpreter holds the descriptors it held before the
\* call; and when it ends the interpreter because a file cannot be opened it
\* has closed what it had obtained.
C18_Descriptors ==
    /\ nbad = 0
    /\ pc = "prompt" => fdt = StartFds(backup)
    /\ pc = "exited" => \A f \in Fds \ {0, 1} : fdt[f] = StartFds(backup)[f]

\* the part of C18 about the calls that return: the descriptors held after
\* the call are those held before it
C18_NoLeakOnReturn ==
    pc \in {"prompt", "wait"} => fdt = StartFds(backup)

\* close() is issued on a descriptor that is not open only after an output
\* file could not be opened
C18_BadCloseOnlyAfterOpenFailure ==
    nbad # 0 => (nbad = 1 /\ Parsed.file_out # NULL /\ (Executing => fd_out < 0))

\* C19: a child holds, apart from its descriptors 0 and 1, only what the
\* interpreter held before execute_cmd was called: no copy of tin or tout and
\* no end of a pipe.  (A child never closes anything before execvp, so what
\* it holds when it loads its program is what it held at fork.)
C19_ChildDescriptors ==
    \A p \in DOMAIN procs :
        \A f \in Fds \ {0, 1} : procs[p].fds[f] = StartFds(backup)[f]

\* what does hold: a child has no end of a pipe other than on 0 and 1,
\* except the read end of the pipe it writes
C19_OnlyOwnReadEnd ==
    \A p \in DOMAIN procs :
        \A f \in Fds \ {0, 1} :
            procs[p].fds[f].kind = "pipe" =>
                procs[p].fds[f] = PipeEnd(procs[p].fds[1].id, "r")

\* the interpreter process exists
Alive == pc \notin {"done", "exited", "crashed"}

\* nobody but the process forked just before q holds the write end of the
\* pipe q reads: no other running process, and not the interpreter
OnlyWriter(q) ==
    LET w == PipeEnd(procs[q].fds[0].id, "w")
    IN  /\ procs[q - 1].line = procs[q].line
        /\ procs[q - 1].stage = procs[q].stage - 1
        /\ procs[q - 1].fds[1] = w
        /\ \A r \in DOMAIN procs \ {q - 1} :
               procs[r].status = "running" => \A f \in Fds : procs[r].fds[f] # w
        /\ Alive => \A f \in Fds : fdt[f] # w

\* C20: once the process of a stage after the first exists, the write end
\* of the pipe it reads is held by the process of the stage before it and by
\* nobody else.
C20_SingleWriter ==
    \A q \in DOMAIN procs : procs[q].stage > 0 => OnlyWriter(q)

\* what does hold: the same, for every stage that was not left with the
\* write end of its own input pipe as its standard output
C20_UnlessOutputFails ==
    \A q \in DOMAIN procs :
        (procs[q].stage > 0 /\ procs[q].fds[1] # PipeEnd(procs[q].fds[0].id, "w"))
            => OnlyWriter(q)
====
